---- MODULE Spec2Model ----
(***************************************************************************)
(* AutoLock: the locker-session life cycle.                                *)
(*                                                                         *)
(* The service is stateless: every HTTP call runs its handler as a         *)
(* sequence of awaited steps (one SQL statement or one gateway call each)  *)
(* and handlers of different calls interleave between those steps.  The    *)
(* shared state is the sessions table.  Each action below is one awaited   *)
(* step of one handler; the synchronous code between two awaits belongs to *)
(* the step that precedes it.                                              *)
(***************************************************************************)
EXTENDS Integers, Sequences, FiniteSets, Bags, TLC

(* ------------------------------ bounds --------------------------------- *)

\* rows the sessions table may hold
MaxSessions == 2
\* handler invocations that may be in flight at the same time
MaxInflight == 2
\* payment references that may be minted
MaxRefs == 2
\* number of distinct codes generateOTP draws from
NumOTP == 2

(* --------------------------- program constants ------------------------- *)

INITIAL_FEE_KES == 10
FLAT_RATE_KES == 10
RATE_PER_MINUTE_KES == 5
\* crypto.randomInt(1000, 10000): the smallest code
OtpLow == 1000

Lockers == {"A1"}
Phones == {"0741535521"}

\* SQL NULL, the absent reference, the absent code
NULL == << >>

\* process.env.PAYSTACK_SECRET_KEY and a key the gateway does not hold
SecretKey == "sk_live"
ForgedKey == "sk_forged"
\* process.env.NEXTAUTH_SECRET
OtpSecret == "nextauth"

\* statuses that the start guard treats as occupying the locker
StartGuardStatuses == {"pending", "paid", "active"}
\* the open statuses of the life cycle, in both vocabularies
OpenStatuses == {"active", "pending", "pending_payment", "paid"}
TerminalStatuses == {"ended", "failed", "expired"}

(* ------------------------------ helpers -------------------------------- *)

\* Number.prototype.toString of a 4-digit integer: its decimal digits
ToDigits(n) ==
    << (n \div 1000) % 10, (n \div 100) % 10, (n \div 10) % 10, n % 10 >>

\* the codes generateOTP may return
GenerateOTP ==
    { ToDigits(n) : n \in OtpLow .. (OtpLow + NumOTP - 1) }

\* sha256(otp + secret), as an injective digest of its input
HashOTP(otp) ==
    << "sha256", otp \o << OtpSecret >> >>

\* HMAC-SHA512 of a body under a key
Hmac(key, body) ==
    << "hmac-sha512", key, body >>

VerifyWebhookSignatureOff(body, signature) ==
    TRUE

VerifyWebhookSignature(body, signature) ==
    Hmac(SecretKey, body) = signature

\* the gateway's answers to POST /charge
GatewayResponses ==
    { [status |-> TRUE,  message |-> "Charge initiated", data_status |-> "success"],
      [status |-> FALSE, message |-> "Charge attempted", data_status |-> "pay_offline"],
      [status |-> FALSE, message |-> "Awaiting OTP",     data_status |-> "send_otp"],
      [status |-> FALSE, message |-> "Pending",          data_status |-> "pending"],
      [status |-> FALSE, message |-> "Invalid phone",    data_status |-> "failed"] }

IsPendingNever(data) ==
    FALSE

IsPending(data) ==
    \/ data.message = "Charge attempted"
    \/ data.data_status = "send_otp"
    \/ data.data_status = "pay_offline"
    \/ data.data_status = "pending"

\* ChargeResult.success of initiateMpesaCharge
ChargeSuccess(data) ==
    data.status \/ IsPending(data)

Max(a, b) ==
    IF a >= b THEN a ELSE b

\* Math.ceil(a / b) for a >= 0, b > 0
CeilDiv(a, b) ==
    (a + b - 1) \div b

\* Math.max(1, Math.ceil(diffMs / 60000))
MinutesUsedFloor(diffMs) ==
    Max(1, diffMs \div 60000)

MinutesUsed(diffMs) ==
    Max(1, CeilDiv(diffMs, 60000))

(* ------------------------------- state --------------------------------- *)

VARIABLES
    sessions,   \* the sessions table: rows in insertion (created_at) order; id = index
    calls,      \* bag of handler invocations in flight (their locals and position)
    observed,   \* the handlers whose responses are recorded in last (fixed by Init)
    last,       \* the observed call the latest step completed, with its response;
                \* NoCall if the step completed none
    refCount,   \* payment references minted so far (each is unique)
    issues,     \* codes stored by webhook updates that changed a row:
                \* [sid, ref, otp, signed], in the order of the updates
    codeReturns \* per issue, the number of poll calls that returned its code

vars == << sessions, calls, observed, last, refCount, issues, codeReturns >>

Rows == 1 .. Len(sessions)

NoCall ==
    [ op |-> "none", pc |-> "done", qual |-> "", locker |-> "", phone |-> "",
      sid |-> 0, ref |-> NULL, otp |-> NULL, issue |-> 0, ok |-> FALSE,
      minutes |-> 0, elapsed |-> 0, overlapped |-> FALSE, signed |-> FALSE, parsed |-> FALSE,
      charge |-> "none", gateway |-> "", http |-> 0, paid |-> FALSE ]

InFlight == BagToSet(calls)

CanBegin == BagCardinality(calls) < MaxInflight

Replace(c, d) == (calls (-) SetToBag({c})) (+) SetToBag({d})

Remove(c) == calls (-) SetToBag({c})

\* the newest row (ORDER BY created_at DESC LIMIT 1) of a non-empty set of row ids
Newest(S) ==
    CHOOSE i \in S : \A j \in S : j <= i

\* `${prefix}_${locker_id}_${Date.now()}_${crypto.randomBytes(4).toString('hex')}`:
\* the time and the random bytes make it differ from every earlier reference
MintRefFixed(prefix, locker) ==
    << prefix, locker, 1 >>

MintRef(prefix, locker) ==
    << prefix, locker, refCount + 1 >>

CanMint == refCount < MaxRefs

\* what a completed call shows: its handler, the row and the issue it acted on,
\* and its response
Respond(c, http) ==
    [NoCall EXCEPT !.op = c.op, !.http = http, !.locker = c.locker,
                   !.qual = c.qual,
                   !.sid = c.sid, !.issue = c.issue,
                   !.charge = c.charge, !.gateway = c.gateway, !.ok = c.ok, !.minutes = c.minutes,
                   !.elapsed = c.elapsed, !.paid = c.paid,
                   !.overlapped = c.overlapped, !.signed = c.signed,
                   !.parsed = c.parsed]

\* the response of a call of an observed handler
Emit(c, http) ==
    IF c.op \in observed THEN Respond(c, http) ELSE NoCall

\* the empty table, no call in flight; obs is the set of observed handlers
InitObserving(obs) ==
    /\ observed = obs
    /\ sessions = << >>
    /\ calls = EmptyBag
    /\ last = NoCall
    /\ refCount = 0
    /\ issues = << >>
    /\ codeReturns = << >>

(* ---------------- POST /api/session/start (pay-first) ------------------ *)

NewRow(locker, phone, status, ref, fee) ==
    [ locker_id |-> locker, phone |-> phone, status |-> status,
      otp_hash |-> NULL, otp_plain |-> NULL, otp_delivered |-> FALSE,
      paystack_ref |-> ref, amount_initial |-> fee, amount_final |-> 0,
      ended_at |-> FALSE ]

\* the guard's SELECT: rows of the locker in ('pending', 'paid', 'active')
StartGuardRows(locker) ==
    { i \in Rows : sessions[i].locker_id = locker
                   /\ sessions[i].status \in StartGuardStatuses }

\* request.json(), the field check, the guard's SELECT and the reference
StartSelect ==
    \E locker \in Lockers, phone \in Phones \cup {""}, dbok \in BOOLEAN :
        LET c == [NoCall EXCEPT !.op = "start", !.locker = locker, !.phone = phone]
        IN  /\ UNCHANGED << observed, sessions, issues, codeReturns >>
            /\ IF phone = ""
               THEN /\ last' = Emit(c, 400)
                    /\ UNCHANGED << calls, refCount >>
               ELSE IF ~dbok
               THEN /\ last' = Emit(c, 500)
                    /\ UNCHANGED << calls, refCount >>
               ELSE IF StartGuardRows(locker) # {}
               THEN /\ last' = Emit(c, 409)
                    /\ UNCHANGED << calls, refCount >>
               ELSE /\ CanMint
                    /\ refCount' = refCount + 1
                    /\ calls' = calls (+) SetToBag({[c EXCEPT !.pc = "insert",
                                    !.ref = MintRef("autolock", locker)]})
                    /\ last' = NoCall

\* INSERT INTO sessions ... 'pending' ... RETURNING id
StartInsert ==
    \E c \in InFlight, dbok \in BOOLEAN :
        /\ c.op = "start" /\ c.pc = "insert"
        /\ UNCHANGED << observed, refCount, issues, codeReturns >>
        /\ IF ~dbok
           THEN /\ last' = Emit(c, 500)
                /\ calls' = Remove(c)
                /\ UNCHANGED sessions
           ELSE /\ Len(sessions) < MaxSessions
                /\ sessions' = Append(sessions,
                       NewRow(c.locker, c.phone, "pending", c.ref, INITIAL_FEE_KES))
                /\ calls' = Replace(c, [c EXCEPT !.pc = "charge",
                                                 !.sid = Len(sessions) + 1])
                /\ last' = NoCall

\* what start does when the charge was not initiated: it goes on to mark the
\* session failed
StartOnRejected(c, data) ==
    /\ calls' = Replace(c, [c EXCEPT !.pc = "fail", !.charge = "rejected",
                                     !.gateway = data.data_status])
    /\ last' = NoCall

\* await initiateMpesaCharge(...): the gateway answers, or the call throws
StartCharge ==
    \E c \in InFlight :
        /\ c.op = "start" /\ c.pc = "charge"
        /\ UNCHANGED << observed, sessions, refCount, issues, codeReturns >>
        /\ \/ \* fetch or response.json() throws: the handler's catch answers 500
              /\ last' = Emit([c EXCEPT !.charge = "threw"], 500)
              /\ calls' = Remove(c)
           \/ \E data \in GatewayResponses :
                 IF ChargeSuccess(data)
                 THEN /\ last' = Emit([c EXCEPT !.charge = "sent", !.ok = TRUE,
                                                !.gateway = data.data_status], 200)
                      /\ calls' = Remove(c)
                 ELSE StartOnRejected(c, data)

\* UPDATE sessions SET status = 'failed' WHERE id = sessionId
StartMarkFailed ==
    \E c \in InFlight, dbok \in BOOLEAN :
        /\ c.op = "start" /\ c.pc = "fail"
        /\ UNCHANGED << observed, refCount, issues, codeReturns >>
        /\ calls' = Remove(c)
        /\ IF ~dbok
           THEN /\ last' = Emit(c, 500)
                /\ UNCHANGED sessions
           ELSE /\ sessions' = [sessions EXCEPT ![c.sid].status = "failed"]
                /\ last' = Emit(c, 502)

(* ------------- start-store: the store-first start (spec 4.1, 6) -------- *)

\* the exclusivity guard of the life cycle: rows in {active, pending_payment, paid},
\* the pay-first flow's 'pending' being its pending_payment
StoreGuardRows(locker) ==
    { i \in Rows : sessions[i].locker_id = locker
                   /\ sessions[i].status \in OpenStatuses }

\* input {locker_id}: conflict if the locker is occupied, else a new 'active' session
StartStore ==
    \E locker \in Lockers :
        LET c == [NoCall EXCEPT !.op = "store", !.locker = locker]
        IN  /\ UNCHANGED << observed, calls, refCount, issues, codeReturns >>
            /\ IF StoreGuardRows(locker) # {}
               THEN /\ last' = Emit(c, 409)
                    /\ UNCHANGED sessions
               ELSE /\ Len(sessions) < MaxSessions
                    /\ sessions' = Append(sessions, NewRow(locker, "", "active", NULL, 0))
                    /\ last' = Emit([c EXCEPT !.sid = Len(sessions) + 1], 200)

(* --------------------- POST /api/session/retrieve ---------------------- *)

\* rows of the locker in ('active', 'pending_payment')
RetrieveRowsAnyStatus(locker) ==
    { i \in Rows : sessions[i].locker_id = locker }

RetrieveRows(locker) ==
    { i \in Rows : sessions[i].locker_id = locker
                   /\ sessions[i].status \in {"active", "pending_payment"} }

\* request.json(), the field check, the SELECT and the reference
RetrieveSelect ==
    \E locker \in Lockers, phone \in Phones \cup {""}, dbok \in BOOLEAN :
        LET c == [NoCall EXCEPT !.op = "retrieve", !.locker = locker, !.phone = phone]
        IN  /\ UNCHANGED << observed, sessions, issues, codeReturns >>
            /\ IF phone = ""
               THEN /\ last' = Emit(c, 400)
                    /\ UNCHANGED << calls, refCount >>
               ELSE IF ~dbok
               THEN /\ last' = Emit(c, 500)
                    /\ UNCHANGED << calls, refCount >>
               ELSE IF RetrieveRows(locker) = {}
               THEN /\ last' = Emit(c, 404)
                    /\ UNCHANGED << calls, refCount >>
               ELSE /\ CanMint
                    /\ refCount' = refCount + 1
                    /\ calls' = calls (+) SetToBag({[c EXCEPT !.pc = "update",
                                    !.sid = Newest(RetrieveRows(locker)),
                                    !.ref = MintRef("autolock_ret", locker)]})
                    /\ last' = NoCall

\* UPDATE sessions SET phone, status = 'pending_payment', paystack_ref, amount_final
\* WHERE id = session.id
RetrieveUpdate ==
    \E c \in InFlight, dbok \in BOOLEAN :
        /\ c.op = "retrieve" /\ c.pc = "update"
        /\ UNCHANGED << observed, refCount, issues, codeReturns >>
        /\ IF ~dbok
           THEN /\ last' = Emit(c, 500)
                /\ calls' = Remove(c)
                /\ UNCHANGED sessions
           ELSE /\ sessions' = [sessions EXCEPT ![c.sid] =
                       [@ EXCEPT !.phone = c.phone, !.status = "pending_payment",
                                 !.paystack_ref = c.ref, !.amount_final = FLAT_RATE_KES]]
                /\ calls' = Replace(c, [c EXCEPT !.pc = "charge"])
                /\ last' = NoCall

\* await initiateMpesaCharge(phone, amount, reference)
RetrieveCharge ==
    \E c \in InFlight :
        /\ c.op = "retrieve" /\ c.pc = "charge"
        /\ UNCHANGED << observed, sessions, refCount, issues, codeReturns >>
        /\ calls' = Remove(c)
        /\ \/ last' = Emit([c EXCEPT !.charge = "threw"], 500)
           \/ \E data \in GatewayResponses :
                 IF ChargeSuccess(data)
                 THEN last' = Emit([c EXCEPT !.charge = "sent", !.ok = TRUE], 200)
                 ELSE last' = Emit([c EXCEPT !.charge = "rejected"], 502)

(* ----------------- POST /api/session/end (billing end) ----------------- *)

\* elapsed milliseconds between started_at and the handler's new Date()
ElapsedMs == {0, 60000, 61000, 125000}

EndRows(locker) ==
    { i \in Rows : sessions[i].locker_id = locker /\ sessions[i].status = "active" }

\* request.json(), the SELECT, the usage computation and the reference
EndSelect ==
    \E locker \in Lockers, diffMs \in ElapsedMs, dbok \in BOOLEAN :
        LET c == [NoCall EXCEPT !.op = "end", !.locker = locker]
        IN  /\ UNCHANGED << observed, sessions, issues, codeReturns >>
            /\ IF ~dbok
               THEN /\ last' = Emit(c, 500)
                    /\ UNCHANGED << calls, refCount >>
               ELSE IF EndRows(locker) = {}
               THEN /\ last' = Emit(c, 404)
                    /\ UNCHANGED << calls, refCount >>
               ELSE /\ CanMint
                    /\ refCount' = refCount + 1
                    /\ calls' = calls (+) SetToBag({[c EXCEPT !.pc = "charge",
                                    !.sid = Newest(EndRows(locker)),
                                    !.phone = sessions[Newest(EndRows(locker))].phone,
                                    !.elapsed = diffMs,
                                    !.minutes = MinutesUsed(diffMs),
                                    !.ref = MintRef("autolock_end", locker)]})
                    /\ last' = NoCall

\* await initiateMpesaCharge(session.phone, amountCharged, reference)
EndCharge ==
    \E c \in InFlight :
        /\ c.op = "end" /\ c.pc = "charge"
        /\ UNCHANGED << observed, sessions, refCount, issues, codeReturns >>
        /\ \/ /\ last' = Emit([c EXCEPT !.charge = "threw"], 500)
              /\ calls' = Remove(c)
           \/ \E data \in GatewayResponses :
                 /\ calls' = Replace(c, [c EXCEPT !.pc = "update",
                                                  !.ok = ChargeSuccess(data)])
                 /\ last' = NoCall

\* UPDATE sessions SET status = 'ended', ended_at = NOW(), amount_final
\* WHERE id = session.id
EndUpdate ==
    \E c \in InFlight, dbok \in BOOLEAN :
        /\ c.op = "end" /\ c.pc = "update"
        /\ UNCHANGED << observed, refCount, issues, codeReturns >>
        /\ calls' = Remove(c)
        /\ IF ~dbok
           THEN /\ last' = Emit(c, 500)
                /\ UNCHANGED sessions
           ELSE /\ sessions' = [sessions EXCEPT ![c.sid] =
                       [@ EXCEPT !.status = "ended", !.ended_at = TRUE,
                                 !.amount_final = c.minutes * RATE_PER_MINUTE_KES]]
                /\ last' = Emit([c EXCEPT
                               !.charge = IF c.ok THEN "sent" ELSE "failed"], 200)

(* --------------- POST /api/session/end (device end) -------------------- *)

DeviceEndRows(locker) ==
    { i \in Rows : sessions[i].locker_id = locker
                   /\ sessions[i].status \in {"paid", "active", "pending_payment"} }

\* UPDATE sessions SET status = 'ended', ended_at = NOW()
\* WHERE locker_id AND status IN ('paid', 'active', 'pending_payment') RETURNING id
EndDevice ==
    \E locker \in Lockers, dbok \in BOOLEAN :
        LET c == [NoCall EXCEPT !.op = "end_device", !.locker = locker]
        IN  /\ UNCHANGED << observed, calls, refCount, issues, codeReturns >>
            /\ IF ~dbok
               THEN /\ last' = Emit(c, 500)
                    /\ UNCHANGED sessions
               ELSE IF DeviceEndRows(locker) = {}
               THEN /\ last' = Emit(c, 404)
                    /\ UNCHANGED sessions
               ELSE /\ sessions' = [i \in Rows |->
                          IF i \in DeviceEndRows(locker)
                          THEN [sessions[i] EXCEPT !.status = "ended", !.ended_at = TRUE]
                          ELSE sessions[i]]
                    /\ \E r \in DeviceEndRows(locker) :
                          last' = Emit([c EXCEPT !.sid = r], 200)

(* ---------------- GET /api/session/status/[locker_id] ------------------ *)

\* rows of the locker that are paid and hold an undelivered code
PollRows(locker) ==
    { i \in Rows : /\ sessions[i].locker_id = locker
                   /\ sessions[i].status = "paid"
                   /\ sessions[i].otp_delivered = FALSE
                   /\ sessions[i].otp_plain # NULL }

\* the issue whose code a row holds: the latest one stored in it
CurrentIssue(sid) ==
    Newest({ i \in 1 .. Len(issues) : issues[i].sid = sid })

PollsInFlight == { c \in InFlight : c.op = "poll" }

\* the calls in flight, every poll among them marked as having overlapped another
MarkPolls ==
    LET mark(c) == IF c.op = "poll" THEN [c EXCEPT !.overlapped = TRUE] ELSE c
        S == { mark(c) : c \in InFlight }
        count(d) == LET src == { c \in InFlight : mark(c) = d }
                        sum[T \in SUBSET src] ==
                            IF T = {} THEN 0
                            ELSE LET x == CHOOSE y \in T : TRUE
                                 IN  calls[x] + sum[T \ {x}]
                    IN  sum[src]
    IN  [ d \in S |-> count(d) ]

\* the SELECT of the paid session with an undelivered code
PollSelect ==
    \E locker \in Lockers, dbok \in BOOLEAN :
        LET c == [NoCall EXCEPT !.op = "poll", !.locker = locker]
        IN  /\ UNCHANGED << observed, sessions, refCount, issues, codeReturns >>
            /\ IF ~dbok
               THEN /\ last' = Emit(c, 500)
                    /\ UNCHANGED calls
               ELSE IF PollRows(locker) = {}
               THEN /\ last' = Emit(c, 200)
                    /\ UNCHANGED calls
               ELSE /\ calls' = (IF PollsInFlight = {} THEN calls ELSE MarkPolls)
                          (+) SetToBag({[c EXCEPT !.pc = "update",
                                !.sid = Newest(PollRows(locker)),
                                !.otp = sessions[Newest(PollRows(locker))].otp_plain,
                                !.issue = CurrentIssue(Newest(PollRows(locker))),
                                !.overlapped = (PollsInFlight # {})]})
                    /\ last' = NoCall

\* the rows a poll's UPDATE changes: WHERE id = session.id AND otp_delivered = FALSE
PollUpdateMatches(c) ==
    sessions[c.sid].otp_delivered = FALSE

\* SET otp_delivered = TRUE, otp_plain = NULL
PollDeliverNothing(row) ==
    row

PollDeliver(row) ==
    [row EXCEPT !.otp_delivered = TRUE, !.otp_plain = NULL]

\* the delivery UPDATE, then the response { paid: true, otp }
PollUpdate ==
    \E c \in InFlight, dbok \in BOOLEAN :
        /\ c.op = "poll" /\ c.pc = "update"
        /\ UNCHANGED << observed, refCount, issues >>
        /\ calls' = Remove(c)
        /\ IF ~dbok
           THEN /\ last' = Emit([c EXCEPT !.otp = NULL], 500)
                /\ UNCHANGED << sessions, codeReturns >>
           ELSE /\ sessions' = IF PollUpdateMatches(c)
                               THEN [sessions EXCEPT ![c.sid] = PollDeliver(@)]
                               ELSE sessions
                /\ codeReturns' = [codeReturns EXCEPT ![c.issue] = @ + 1]
                /\ last' = Emit([c EXCEPT !.paid = TRUE], 200)

(* ------------------- POST /api/webhook/paystack ------------------------ *)

\* a reference no session carries
UnknownRef == << "autolock", "??", 0 >>

\* references stored in the table
StoredRefs ==
    { sessions[i].paystack_ref : i \in Rows } \ {NULL}

\* raw request bodies: charge.success or another event for a reference, and a
\* body JSON.parse rejects
Bodies ==
    { [json |-> TRUE, event |-> e, reference |-> r] :
          e \in {"charge.success", "charge.failed"},
          r \in StoredRefs \cup {UnknownRef} }
    \cup { [json |-> FALSE, event |-> "", reference |-> NULL] }

\* x-paystack-signature: missing, the gateway's, a forger's, or the gateway's
\* signature of another body
Signatures(body) ==
    { NULL, Hmac(SecretKey, body), Hmac(ForgedKey, body),
      Hmac(SecretKey, [body EXCEPT !.reference = << "autolock", "A1", 0 >>]) }

\* the gateway signed exactly these bytes
GatewaySigned(body, signature) ==
    /\ signature # NULL
    /\ signature[2] = SecretKey
    /\ signature[3] = body

\* the status of the response when the handler throws with error e: its catch
\* acknowledges
WebhookCatchFails(e) ==
    500

WebhookCatch(e) ==
    200

\* event.event of a parsed body, recorded with the call where the events of the
\* webhook are observed
EventOf(body) ==
    IF "webhook_event" \in observed THEN body.event ELSE ""

\* request.text(), the signature check, JSON.parse, the event type, the SELECT by
\* reference, the status check and the code; qual is the status the handler expects
WebhookReceive(qual) ==
    \E body \in Bodies :
      \E signature \in Signatures(body) :
        LET c == [NoCall EXCEPT !.op = "webhook", !.qual = qual,
                                !.signed = GatewaySigned(body, signature),
                                !.ref = body.reference]
            found == { i \in Rows : sessions[i].paystack_ref = body.reference }
        IN  /\ UNCHANGED << observed, sessions, refCount, issues, codeReturns >>
            /\ IF ~VerifyWebhookSignature(body, signature)
               THEN /\ last' = Emit(c, 401)
                    /\ UNCHANGED calls
               ELSE IF ~body.json
               THEN \* JSON.parse throws
                    /\ last' = Emit([c EXCEPT !.parsed = TRUE, !.charge = "threw"],
                                       WebhookCatch("parse"))
                    /\ UNCHANGED calls
               ELSE IF body.event # "charge.success"
               THEN /\ last' = Emit([c EXCEPT !.parsed = TRUE,
                                              !.gateway = EventOf(body)], 200)
                    /\ UNCHANGED calls
               ELSE \/ \* the SELECT throws
                       /\ last' = Emit([c EXCEPT !.parsed = TRUE, !.charge = "threw",
                                                 !.gateway = EventOf(body)],
                                          WebhookCatch("select"))
                       /\ UNCHANGED calls
                    \/ /\ found = {}
                       /\ last' = Emit([c EXCEPT !.parsed = TRUE,
                                                 !.gateway = EventOf(body)], 200)
                       /\ UNCHANGED calls
                    \/ \E sid \in found :
                          IF sessions[sid].status # qual
                          THEN /\ last' = Emit([c EXCEPT !.parsed = TRUE,
                                                         !.gateway = EventOf(body),
                                                         !.sid = sid], 200)
                               /\ UNCHANGED calls
                          ELSE \E otp \in GenerateOTP :
                               /\ calls' = calls (+) SetToBag({[c EXCEPT
                                      !.pc = "update", !.parsed = TRUE,
                                      !.gateway = EventOf(body),
                                      !.sid = sid, !.otp = otp]})
                               /\ last' = NoCall

\* the webhook of the pay-first flow expects 'pending'
WebhookPaystack ==
    WebhookReceive("pending")

\* the webhook of the retrieval flow expects 'pending_payment'
WebhookRetrieval ==
    WebhookReceive("pending_payment")

\* WHERE id = session.id AND status = <expected>
WebhookUpdateAlways(c) ==
    TRUE

WebhookUpdateMatches(c) ==
    sessions[c.sid].status = c.qual

\* SET status = 'paid', otp_hash, otp_plain, otp_delivered = FALSE
WebhookStoreStatusOnly(row, otp) ==
    [row EXCEPT !.status = "paid"]

WebhookStore(row, otp) ==
    [row EXCEPT !.status = "paid", !.otp_hash = HashOTP(otp),
                !.otp_plain = otp, !.otp_delivered = FALSE]

\* the status-qualified UPDATE, then the acknowledgement
WebhookUpdate ==
    \E c \in InFlight :
        /\ c.op = "webhook" /\ c.pc = "update"
        /\ UNCHANGED << observed, refCount >>
        /\ calls' = Remove(c)
        /\ \/ \* the UPDATE throws
              /\ last' = Emit([c EXCEPT !.otp = NULL, !.charge = "threw"],
                                 WebhookCatch("update"))
              /\ UNCHANGED << sessions, issues, codeReturns >>
           \/ IF WebhookUpdateMatches(c)
              THEN /\ sessions' = [sessions EXCEPT ![c.sid] = WebhookStore(@, c.otp)]
                   /\ issues' = Append(issues, [sid |-> c.sid, ref |-> c.ref,
                                                otp |-> c.otp, signed |-> c.signed])
                   /\ codeReturns' = Append(codeReturns, 0)
                   /\ last' = Emit([c EXCEPT !.issue = Len(issues) + 1,
                                                !.otp = NULL], 200)
              ELSE /\ last' = Emit([c EXCEPT !.otp = NULL], 200)
                   /\ UNCHANGED << sessions, issues, codeReturns >>

(* ------------------------------ the system ----------------------------- *)

\* a new call is taken on while fewer than MaxInflight are in flight
Next ==
    \/ CanBegin /\ StartSelect
    \/ StartInsert
    \/ StartCharge
    \/ StartMarkFailed
    \/ CanBegin /\ StartStore
    \/ CanBegin /\ RetrieveSelect
    \/ RetrieveUpdate
    \/ RetrieveCharge
    \/ CanBegin /\ EndSelect
    \/ EndCharge
    \/ EndUpdate
    \/ CanBegin /\ EndDevice
    \/ CanBegin /\ PollSelect
    \/ PollUpdate
    \/ CanBegin /\ WebhookPaystack
    \/ CanBegin /\ WebhookRetrieval
    \/ WebhookUpdate

\* no response recorded: the table and the history alone
Init ==
    InitObserving({})

Spec == Init /\ [][Next]_vars

\* the same system, with the responses of one handler recorded
InitStart ==
    InitObserving({"start"})

SpecStart == InitStart /\ [][Next]_vars

InitPoll ==
    InitObserving({"poll"})

SpecPoll == InitPoll /\ [][Next]_vars

InitWebhook ==
    InitObserving({"webhook"})

SpecWebhook == InitWebhook /\ [][Next]_vars

InitEnd ==
    InitObserving({"end"})

SpecEnd == InitEnd /\ [][Next]_vars

\* the pay-first flow alone: start, its webhook, poll and the device's end
NextPayFirst ==
    \/ CanBegin /\ StartSelect
    \/ StartInsert
    \/ StartCharge
    \/ StartMarkFailed
    \/ CanBegin /\ WebhookPaystack
    \/ WebhookUpdate
    \/ CanBegin /\ PollSelect
    \/ PollUpdate
    \/ CanBegin /\ EndDevice

SpecPayFirst == Init /\ [][NextPayFirst]_vars

\* the pay-first flow, with the responses of the device's end recorded
InitEndDevice ==
    InitObserving({"end_device"})

SpecEndDevice == InitEndDevice /\ [][NextPayFirst]_vars

\* every handler, with the responses of end, retrieve and poll recorded
InitLookup ==
    InitObserving({"end", "retrieve", "poll"})

SpecLookup == InitLookup /\ [][Next]_vars

\* the pay-first flow under both revisions of the webhook, with the responses
\* and the events of the webhook recorded
NextWebhookEvents ==
    \/ NextPayFirst
    \/ CanBegin /\ WebhookRetrieval

InitWebhookEvents ==
    InitObserving({"webhook", "webhook_event"})

SpecWebhookEvents == InitWebhookEvents /\ [][NextWebhookEvents]_vars

\* the pay-first flow and the arrival of the billing end, with the responses of
\* the billing end recorded
NextEndPaid ==
    \/ NextPayFirst
    \/ CanBegin /\ EndSelect

SpecEndPaid == InitEnd /\ [][NextEndPaid]_vars

\* start, the gateway's webhook and the polling device, with the responses of
\* start recorded
NextLive ==
    \/ CanBegin /\ StartSelect
    \/ StartInsert
    \/ StartCharge
    \/ StartMarkFailed
    \/ CanBegin /\ WebhookPaystack
    \/ WebhookUpdate
    \/ CanBegin /\ PollSelect
    \/ PollUpdate

\* the gateway delivers the signed charge.success of a pending session
DeliverPayment ==
    CanBegin /\ WebhookPaystack /\ calls' # calls

\* the webhook's update goes through
StoreCode ==
    WebhookUpdate /\ issues' # issues

\* the device polls and finds a code
PollReads ==
    CanBegin /\ PollSelect /\ calls' # calls

\* the poll's update goes through and the poll answers
PollAnswers ==
    PollUpdate /\ codeReturns' # codeReturns

\* a handler in flight goes on to its next step; the gateway keeps delivering the
\* webhook and the device keeps polling, and the database does not fail them
\* forever
FairLive ==
    /\ WF_vars(StartInsert) /\ WF_vars(StartCharge) /\ WF_vars(StartMarkFailed)
    /\ WF_vars(WebhookUpdate) /\ WF_vars(PollUpdate)
    /\ SF_vars(DeliverPayment) /\ SF_vars(StoreCode)
    /\ SF_vars(PollReads) /\ SF_vars(PollAnswers)

SpecLive == InitStart /\ [][NextLive]_vars /\ FairLive

\* time passes: the staleness windows of the open sessions elapse while no
\* handler is running
Tick ==
    /\ "tick" \in observed
    /\ last.op # "tick"
    /\ calls = EmptyBag
    /\ \E r \in Rows : sessions[r].status \in OpenStatuses
    /\ last' = [NoCall EXCEPT !.op = "tick"]
    /\ UNCHANGED << observed, sessions, calls, refCount, issues, codeReturns >>

\* the pay-first flow with the passing of time, the responses of start recorded
NextStale ==
    \/ CanBegin /\ StartSelect
    \/ StartInsert
    \/ StartCharge
    \/ StartMarkFailed
    \/ CanBegin /\ WebhookPaystack
    \/ WebhookUpdate
    \/ CanBegin /\ PollSelect
    \/ PollUpdate
    \/ CanBegin /\ EndDevice
    \/ Tick

InitStale ==
    InitObserving({"start", "tick"})

SpecStale == InitStale /\ [][NextStale]_vars

\* the retrieval flow alone (store, retrieve, its webhook, poll), with one more
\* call in flight
CanBeginRace == BagCardinality(calls) < MaxInflight + 1

NextRace ==
    \/ CanBeginRace /\ StartStore
    \/ CanBeginRace /\ RetrieveSelect
    \/ RetrieveUpdate
    \/ RetrieveCharge
    \/ CanBeginRace /\ PollSelect
    \/ PollUpdate
    \/ CanBeginRace /\ WebhookRetrieval
    \/ WebhookUpdate

SpecRace == Init /\ [][NextRace]_vars

(* ------------------------------- claims -------------------------------- *)

IssueIds == 1 .. Len(issues)

\* rows of a locker in an open status
OpenRows(locker) ==
    { i \in Rows : sessions[i].locker_id = locker
                   /\ sessions[i].status \in OpenStatuses }

\* C1: in every reachable state each locker has at most one session in an open
\* status (active, pending / pending_payment, paid), also when two start calls
\* race on the same free locker.
C1_AtMostOneOpenSession ==
    \A l \in Lockers : Cardinality(OpenRows(l)) <= 1

\* C2: of the poll calls that run concurrently against one paid session holding
\* an undelivered code, exactly one returns the code: no issued code is returned
\* by more than one poll.
C2_OnePollGetsTheCode ==
    \A i \in IssueIds : codeReturns[i] <= 1

\* C3: the same authentic charge.success event delivered twice for one reference
\* produces exactly one transition to paid and one stored code: no two webhook
\* updates that changed a row carry the same reference.
C3_OneTransitionPerReference ==
    \A i, j \in IssueIds :
        (issues[i].signed /\ issues[j].signed /\ issues[i].ref = issues[j].ref)
            => i = j

\* C4: no session ever has otp_delivered = TRUE together with a non-null
\* otp_plain, and once a session's code is delivered its otp_plain stays null in
\* every later state.
C4_DeliveredCodeStaysErased ==
    [][\A i \in 1 .. Len(sessions') :
          /\ ~(sessions'[i].otp_delivered /\ sessions'[i].otp_plain # NULL)
          /\ (i \in Rows /\ sessions[i].otp_delivered)
                => sessions'[i].otp_plain = NULL]_vars

\* the rows whose only issue is i, still paid
HoldsOnlyIssue(i) ==
    /\ \A j \in IssueIds : issues[j].sid = issues[i].sid => j = i
    /\ sessions[issues[i].sid].status = "paid"

\* C5: with sequential polls (none overlapping another), a poll that returns a
\* code is the only poll that ever returned it; while no poll is running, a code
\* that was returned is no longer readable by a poll (later polls get paid:false)
\* and the one code issued to a paid session that was not returned yet is
\* readable (the next poll returns it).
C5_SequentialPollsDeliverOnce ==
    /\ (last.op = "poll" /\ last.paid /\ ~last.overlapped)
          => codeReturns[last.issue] = 1
    /\ PollsInFlight = {} =>
          /\ \A l \in Lockers : \A r \in PollRows(l) :
                codeReturns[CurrentIssue(r)] = 0
          /\ \A i \in IssueIds :
                (HoldsOnlyIssue(i) /\ codeReturns[i] = 0)
                    => issues[i].sid \in PollRows(sessions[issues[i].sid].locker_id)

\* a sequential poll returned the code, the session is still paid and no poll is
\* running: any later poll reads nothing
C5_Witness ==
    /\ last.op = "poll" /\ last.paid /\ ~last.overlapped /\ last.http = 200
    /\ sessions[last.sid].status = "paid"
    /\ sessions[last.sid].otp_delivered
    /\ PollsInFlight = {}
    /\ PollRows(last.locker) = {}

\* C6: a poll returns a code only if a signature-verified charge.success webhook
\* stored it earlier: every code a row holds, and every code a poll returned, was
\* stored by a webhook update whose body the gateway signed.
C6_CodeOnlyAfterAuthenticWebhook ==
    /\ \A r \in Rows : sessions[r].otp_plain # NULL =>
          /\ \E i \in IssueIds : issues[i].sid = r
          /\ issues[CurrentIssue(r)].otp = sessions[r].otp_plain
          /\ issues[CurrentIssue(r)].signed
    /\ \A i \in IssueIds : codeReturns[i] > 0 => issues[i].signed

\* a poll returned a code
C6_Witness ==
    \E i \in IssueIds : codeReturns[i] > 0 /\ issues[i].signed

\* C7: a webhook whose signature is not the keyed hash of the raw body (or is
\* missing) is answered 401 before the body is parsed and leaves every session
\* unchanged.
C7_BadSignatureRejected ==
    [][(last'.op = "webhook" /\ ~last'.signed)
          => /\ last'.http = 401
             /\ ~last'.parsed
             /\ sessions' = sessions
             /\ issues' = issues]_vars

\* a webhook without the gateway's signature was answered 401 while a session
\* was waiting for its payment
C7_Witness ==
    /\ last.op = "webhook" /\ ~last.signed /\ last.http = 401
    /\ \E r \in Rows : sessions[r].status \in {"pending", "pending_payment"}

\* C8: every webhook call with a valid signature is answered with the success
\* acknowledgement (200), whatever the event, the reference, the session's status,
\* and also when the handler throws while processing.
C8_ValidWebhookAcknowledged ==
    (last.op = "webhook" /\ last.signed) => last.http = 200

\* a validly signed webhook whose processing threw was acknowledged
C8_Witness ==
    last.op = "webhook" /\ last.signed /\ last.charge = "threw" /\ last.http = 200

\* C9: whenever charge initiation fails during start (the gateway rejects the
\* charge or the call to the gateway fails), the session that start created is in
\* status failed when the call finishes.
C9_FailedChargeMarksFailed ==
    (last.op = "start" /\ last.charge \in {"threw", "rejected"})
        => sessions[last.sid].status = "failed"

\* C10: after a start failed because the charge could not be initiated, and its
\* session is the only one that could occupy the locker, a following start on the
\* same locker is not rejected with conflict.
C10_FailedStartDoesNotBlock ==
    [][(/\ last.op = "start" /\ last.charge \in {"threw", "rejected"}
        /\ StartGuardRows(last.locker) \subseteq {last.sid}
        /\ last'.op = "start" /\ last'.locker = last.locker)
          => last'.http # 409]_vars

\* C11: an end call that found the locker's session and got to the closing
\* charge has moved the session to ended when it finishes, whether the charge was
\* accepted or failed, and reports charge_status 'sent' exactly when the gateway
\* accepted the charge (or awaits its confirmation) and 'failed' otherwise.
C11_EndedWhateverTheCharge ==
    (last.op = "end" /\ last.charge # "none")
        => /\ sessions[last.sid].status = "ended"
           /\ last.http = 200
           /\ last.charge \in {"sent", "failed"}
           /\ (last.charge = "sent") <=> last.ok

\* C12: an end call that succeeds after an elapsed duration d reports the least
\* number of whole minutes, at least 1, that covers d, and stores 5 per minute as
\* amount_final: 61 s gives 2 minutes and 10, 125 s gives 3 minutes and 15.
C12_BillingRoundsUp ==
    (last.op = "end" /\ last.http = 200)
        => /\ last.minutes >= 1
           /\ last.minutes * 60000 >= last.elapsed
           /\ (last.minutes > 1) => ((last.minutes - 1) * 60000 < last.elapsed)
           /\ sessions[last.sid].amount_final = last.minutes * 5
           /\ (last.elapsed = 61000) =>
                 (last.minutes = 2 /\ sessions[last.sid].amount_final = 10)
           /\ (last.elapsed = 125000) =>
                 (last.minutes = 3 /\ sessions[last.sid].amount_final = 15)

\* an end call succeeded 125 s after the start and stored 15
C12_Witness ==
    /\ last.op = "end" /\ last.http = 200 /\ last.elapsed = 125000
    /\ sessions[last.sid].status = "ended"
    /\ sessions[last.sid].amount_final = 15

\* this step takes a start call on the locker past its guard
StartAccepted(locker) ==
    \E c \in BagToSet(calls') :
        /\ c.op = "start" /\ c.pc = "insert" /\ c.locker = locker
        /\ c \notin InFlight

\* C13: a start call on a locker that already has a session in an open status is
\* rejected with conflict: it is never taken past the guard (so it creates no row
\* and initiates no charge) and it leaves the sessions unchanged.
C13_StartOnOccupiedLockerRejected ==
    [][\A l \in Lockers :
          OpenRows(l) # {} => (~StartAccepted(l) /\ (last'.op = "start" =>
                                    (last'.http \in {400, 409, 500}
                                     /\ sessions' = sessions)))]_vars

\* C14: after an end call has succeeded on a locker the locker is free: no session
\* of the locker is left that makes the next start answer conflict, and the ended
\* session has status ended.
C14_LockerFreeAfterEnd ==
    (last.op = "end_device" /\ last.http = 200)
        => /\ sessions[last.sid].status = "ended"
           /\ StartGuardRows(last.locker) = {}

\* C15: once the pay-first webhook handler has run its update for an authentic
\* charge.success carrying the reference of a session, the session is no longer
\* pending; and when the update changed the session, the session is paid,
\* otp_plain is one of the 4-digit codes, otp_hash is the digest of that code with
\* the secret, and otp_delivered is false.
C15_WebhookStoresCode ==
    /\ (/\ last.op = "webhook" /\ last.qual = "pending" /\ last.sid > 0
        /\ last.charge # "threw")
          => /\ last.signed
             /\ sessions[last.sid].status # "pending"
    /\ (last.op = "webhook" /\ last.issue > 0)
        => LET row == sessions[last.sid]
           IN  /\ last.signed /\ last.http = 200
               /\ issues[last.issue].ref \in { << "autolock", l, n >> :
                                                l \in Lockers, n \in 1 .. MaxRefs + 1 }
                     => /\ row.status = "paid"
                        /\ row.otp_plain = issues[last.issue].otp
                        /\ row.otp_plain \in GenerateOTP
                        /\ Len(row.otp_plain) = 4
                        /\ row.otp_hash = << "sha256", row.otp_plain \o << OtpSecret >> >>
                        /\ row.otp_delivered = FALSE

\* the webhook for the reference of a pay-first session moved it to paid
C15_Witness ==
    /\ last.op = "webhook" /\ last.issue > 0 /\ last.signed
    /\ issues[last.issue].ref[1] = "autolock"
    /\ sessions[last.sid].status = "paid"
    /\ sessions[last.sid].otp_plain # NULL

\* the code issued to row r was returned by a poll
CodeReturnedFor(r) ==
    \E i \in IssueIds : issues[i].sid = r /\ codeReturns[i] > 0

C17_StaleSessionsReclaimed ==
    [][\A l \in Lockers :
          (/\ last.op = "tick"
           /\ \/ StartAccepted(l)
              \/ last'.op = "start" /\ last'.locker = l /\ last'.http = 409)
            => /\ last'.http # 409
               /\ \A r \in OpenRows(l) : sessions'[r].status = "expired"]_vars

\* C18: once a session's status is terminal (ended, failed or expired), no step of
\* any call, later or concurrent, changes its status or any other of its fields.
C18_TerminalSessionsInert ==
    [][\A r \in Rows :
          sessions[r].status \in TerminalStatuses => sessions'[r] = sessions[r]]_vars

\* C19: an end call on a locker that has a session in status active, paid or
\* pending_payment ends it: the call is never answered "no session" while such
\* a session exists, and a successful end leaves its session ended with
\* ended_at set.
C19_EndFromEveryOpenStatus ==
    /\ (last.op = "end" /\ last.http = 404)
           => \A r \in Rows :
                 sessions[r].locker_id = last.locker
                     => sessions[r].status \notin {"active", "paid", "pending_payment"}
    /\ (last.op = "end" /\ last.http = 200)
           => sessions[last.sid].status = "ended" /\ sessions[last.sid].ended_at

\* references the table, the calls in flight or the stored codes carry
UsedRefs ==
    StoredRefs \cup { c.ref : c \in InFlight } \cup { issues[i].ref : i \in IssueIds }

C21_RetrievalPaymentIssuesCode ==
    (/\ last.op = "webhook" /\ last.signed /\ last.sid > 0
     /\ last.http = 200 /\ last.charge # "threw")
        => sessions[last.sid].status # "pending_payment"

\* the number of calls of handler op in flight in the bag b
CountOp(b, op) ==
    BagCardinality([ c \in { d \in BagToSet(b) : d.op = op } |-> b[c] ])

\* the step takes on a call of handler op
Begins(op) ==
    CountOp(calls', op) > CountOp(calls, op)

\* C22: an end, retrieve or poll call goes past its SELECT only with a session
\* of the locker that matches it (active for end, active or pending_payment for
\* retrieve, paid with an undelivered code for poll); a call that ends at its
\* SELECT answers 404 (poll: 200 with paid false) only when no session of the
\* locker matches, begins no charge and leaves every session unchanged.
C22_NotFoundChangesNothing ==
    [][/\ Begins("end")
             => \E c \in BagToSet(calls') :
                   /\ c.op = "end" /\ c.pc = "charge"
                   /\ sessions[c.sid].locker_id = c.locker
                   /\ sessions[c.sid].status = "active"
       /\ Begins("retrieve")
             => \E c \in BagToSet(calls') :
                   /\ c.op = "retrieve" /\ c.pc = "update"
                   /\ sessions[c.sid].locker_id = c.locker
                   /\ sessions[c.sid].status \in {"active", "pending_payment"}
       /\ Begins("poll")
             => \E c \in BagToSet(calls') :
                   /\ c.op = "poll" /\ c.pc = "update"
                   /\ sessions[c.sid].locker_id = c.locker
                   /\ sessions[c.sid].status = "paid"
                   /\ sessions[c.sid].otp_delivered = FALSE
                   /\ sessions[c.sid].otp_plain # NULL
       /\ (last'.op \in {"end", "retrieve", "poll"} /\ last'.sid = 0)
             => /\ sessions' = sessions
                /\ calls' = calls
                /\ refCount' = refCount
                /\ last'.charge = "none"
                /\ last'.paid = FALSE
                /\ last'.op = "end" => last'.http \in {404, 500}
                /\ last'.op = "retrieve" => last'.http \in {400, 404, 500}
                /\ last'.op = "poll" => last'.http \in {200, 500}
                /\ (last'.op = "end" /\ last'.http = 404)
                      => \A r \in Rows : sessions[r].locker_id = last'.locker
                                             => sessions[r].status # "active"
                /\ (last'.op = "retrieve" /\ last'.http = 404)
                      => \A r \in Rows : sessions[r].locker_id = last'.locker
                            => sessions[r].status \notin {"active", "pending_payment"}
                /\ (last'.op = "poll" /\ last'.http = 200)
                      => \A r \in Rows : sessions[r].locker_id = last'.locker
                            => \/ sessions[r].status # "paid"
                               \/ sessions[r].otp_delivered
                               \/ sessions[r].otp_plain = NULL]_vars

\* a retrieve was answered 404 on a locker whose sessions are all closed
C22_Witness ==
    /\ last.op = "retrieve" /\ last.http = 404 /\ last.sid = 0
    /\ \E r \in Rows : sessions[r].locker_id = last.locker
    /\ \A r \in Rows : sessions[r].locker_id = last.locker
                           => sessions[r].status \in TerminalStatuses

\* C23: a start call answered with the internal failure (500) has left no
\* session behind: the row it inserted, if it got that far, is not in the table.
C23_InternalFailureLeavesNothing ==
    (last.op = "start" /\ last.http = 500) => last.sid \notin Rows

\* C24: within one session otp_delivered only ever changes from false to true:
\* no step sets it back to false.
C24_DeliveredNeverResets ==
    [][\A r \in Rows : sessions[r].otp_delivered => sessions'[r].otp_delivered]_vars

\* the gateway did not accept the charge outright but its answer carries an
\* awaiting-confirmation marker
AwaitingConfirmation(c) ==
    c.gateway \in {"pay_offline", "send_otp", "pending"}

\* C25: a start whose charge the gateway answered with an awaiting-confirmation
\* marker returns success, and its session is not marked failed: it is pending,
\* or an authentic webhook has meanwhile stored a code in it.
C25_AwaitingConfirmationIsSuccess ==
    /\ \A c \in InFlight : (c.op = "start" /\ AwaitingConfirmation(c)) => c.pc # "fail"
    /\ (last.op = "start" /\ AwaitingConfirmation(last))
          => /\ last.http = 200
             /\ last.ok
             /\ last.charge = "sent"
             /\ sessions[last.sid].status # "failed"
             /\ sessions[last.sid].status # "pending"
                   => \E i \in IssueIds : issues[i].sid = last.sid

C25_Witness ==
    /\ last.op = "start" /\ last.gateway = "pay_offline" /\ last.http = 200
    /\ sessions[last.sid].status = "pending"

\* C26: a poll that returns a code does so for a session that is paid at the
\* time of its update, and changes nothing but that session's otp_delivered
\* (false to true) and otp_plain (to null).
C26_PollDeliversOnlyPaid ==
    [][\A i \in IssueIds :
          codeReturns'[i] # codeReturns[i]
              => LET r == issues[i].sid
                 IN  /\ sessions[r].status = "paid"
                     /\ sessions'[r].status = "paid"
                     /\ \A q \in Rows \ {r} : sessions'[q] = sessions[q]
                     /\ \/ sessions'[r] = sessions[r]
                        \/ /\ sessions[r].otp_delivered = FALSE
                           /\ sessions'[r] = [sessions[r] EXCEPT !.otp_delivered = TRUE,
                                                                 !.otp_plain = NULL]]_vars

\* the row is as the handler of call c found it when it read it
AsExpected(c, row) ==
    /\ (c.op = "start") => row.status = "pending"
    /\ (c.op = "retrieve") => row.status \in {"active", "pending_payment"}
    /\ (c.op = "end") => row.status = "active"
    /\ (c.op = "webhook") => row.status = c.qual
    /\ (c.op = "poll") => row.otp_delivered = FALSE

\* C27: a handler's write changes a session only if the session still has the
\* status (for poll: the delivery flag) the handler expects; when another call
\* changed the row since the handler read it, the write changes nothing.
C27_WritesAreConditional ==
    [][\A c \in InFlight \ BagToSet(calls') :
          (c.sid \in Rows /\ sessions'[c.sid] # sessions[c.sid])
              => AsExpected(c, sessions[c.sid])]_vars

\* C28: while a start, retrieve or end call has not yet sent its charge request
\* to the gateway, no session record reflects the attempt: no session carries
\* the call's payment reference.
C28_ChargeBeforeWrite ==
    \A c \in InFlight :
        (c.op \in {"start", "retrieve", "end"} /\ c.pc = "charge")
            => c.ref \notin StoredRefs

\* C29: whenever a session holds a code, its otp_hash is the digest of that code
\* (the code with the secret, under sha256), and an otp_hash once written is
\* never written again.
C29_HashWrittenOnce ==
    [][\A r \in 1 .. Len(sessions') :
          /\ sessions'[r].otp_plain # NULL
                => sessions'[r].otp_hash
                     = << "sha256", sessions'[r].otp_plain \o << OtpSecret >> >>
          /\ (r \in Rows /\ sessions[r].otp_hash # NULL)
                => sessions'[r].otp_hash = sessions[r].otp_hash]_vars

\* C30: a webhook moves a session to paid only for the payment reference the
\* session carries at that time: every code stored in a session is stored for
\* the session's current reference, and a webhook whose reference no session
\* carries takes no step beyond its SELECT.
C30_OnlyCurrentReferencePays ==
    [][/\ \A i \in 1 .. Len(issues') :
             i \notin IssueIds
                 => issues'[i].ref = sessions[issues'[i].sid].paystack_ref
       /\ Begins("webhook")
             => \E c \in BagToSet(calls') :
                   c.op = "webhook" /\ c.sid \in Rows
                   /\ sessions[c.sid].paystack_ref = c.ref]_vars

\* C31: for each session at most one closing charge is initiated and at most one
\* end call reports success: no two end calls have both sent a charge for the
\* same session, and an end call answers 200 only for a session that was not
\* ended before its update.
C31_OneClosingCharge ==
    [][/\ \A c, d \in BagToSet(calls') :
             (/\ c.op = "end" /\ d.op = "end"
              /\ c.pc = "update" /\ d.pc = "update"
              /\ c.sid = d.sid)
                 => c = d
       /\ (last'.op = "end" /\ last'.http = 200)
             => sessions[last'.sid].status # "ended"]_vars

\* C32: an authentic webhook goes past its SELECT only for a charge.success
\* event whose reference a session carries and whose session is in the status
\* the handler expects, and stores a code only in a session that is still in
\* that status; every other authentic webhook (another event, an unknown
\* reference, a session in another status) issues no code and leaves every
\* session unchanged.
C32_OtherWebhooksChangeNothing ==
    [][/\ Begins("webhook")
             => \E c \in BagToSet(calls') :
                   /\ c.op = "webhook" /\ c.pc = "update"
                   /\ c.signed /\ c.gateway = "charge.success"
                   /\ c.sid \in Rows
                   /\ sessions[c.sid].paystack_ref = c.ref
                   /\ sessions[c.sid].status = c.qual
       /\ (last'.op = "webhook" /\ last'.issue > 0)
             => /\ last'.gateway = "charge.success"
                /\ sessions[last'.sid].status = last'.qual
       /\ (last'.op = "webhook" /\ last'.issue = 0)
             => /\ sessions' = sessions
                /\ issues' = issues
                /\ codeReturns' = codeReturns
       /\ (last'.op = "webhook" /\ last'.gateway = "charge.failed")
             => /\ calls' = calls
                /\ last'.sid = 0
       /\ (/\ last'.op = "webhook" /\ last'.sid > 0 /\ last'.issue = 0
           /\ last'.charge # "threw")
             => sessions[last'.sid].status # last'.qual]_vars

\* an authentic charge.success for a session that is already paid was
\* acknowledged without a code
C32_Witness ==
    /\ last.op = "webhook" /\ last.signed /\ last.gateway = "charge.success"
    /\ last.sid > 0 /\ last.issue = 0 /\ last.http = 200 /\ last.charge = "none"
    /\ sessions[last.sid].status = "paid"

====
